---------------------------- MODULE Spec2Model ----------------------------
(***************************************************************************)
(* Model of the mcp-prompt-optimizer bridge: the stdin line dispatcher of  *)
(* index.js (startServer), MCPServer.handleMessage / handleToolCall of     *)
(* lib/mcp-protocol, PromptOptimizerApiClient.optimize of lib/api-client,  *)
(* and the configuration file of lib/config (Config).                      *)
(*                                                                         *)
(* JSON values are records [t, v]: t is the JavaScript type after          *)
(* JSON.parse ("undefined" for a member that is absent), v the content as  *)
(* a sequence of strings (the characters of a string, the elements of an   *)
(* array of strings, the digits of a number).                              *)
(***************************************************************************)
EXTENDS Integers, Sequences, FiniteSets, TLC

(***************************************************************************)
(* Bounds of the model.                                                    *)
(***************************************************************************)
\* longest input stream, in tokens, the dispatcher specification receives
MaxStream == 5
\* longest goals array of a tools/call drawn by the single-message specification
MaxGoals == 3
\* most lines the handshake specification reads
MaxLines == 3

(***************************************************************************)
(* JSON values.                                                            *)
(***************************************************************************)
Undefined == [t |-> "undefined", v |-> <<>>]
Null == [t |-> "null", v |-> <<>>]
Str(s) == [t |-> "string", v |-> s]
Num(d) == [t |-> "number", v |-> <<d>>]
Arr(e) == [t |-> "array", v |-> e]
Obj == [t |-> "object", v |-> <<>>]

\* JavaScript !x
Falsy(x) ==
    \/ x.t \in {"undefined", "null"}
    \/ x.t = "string" /\ x.v = <<>>
    \/ x.t = "number" /\ x.v = <<"0">>

IsWs(c) == c \in {" ", "\t", "\r"}

\* String.prototype.trim on a sequence of characters
RECURSIVE TrimLeft(_)
TrimLeft(s) ==
    IF s # <<>> /\ IsWs(Head(s)) THEN TrimLeft(Tail(s)) ELSE s

RECURSIVE TrimRight(_)
TrimRight(s) ==
    IF s # <<>> /\ IsWs(s[Len(s)]) THEN TrimRight(SubSeq(s, 1, Len(s) - 1)) ELSE s

\* a bug: trimStart in place of trim
trimStart(s) == TrimLeft(s)

trim(s) == TrimRight(TrimLeft(s))

\* a bug: the kept elements collected in reverse
RECURSIVE filterUnshift(_, _)
filterUnshift(s, keep) ==
    IF s = <<>> THEN <<>>
    ELSE IF Head(s) \in keep THEN filterUnshift(Tail(s), keep) \o <<Head(s)>>
    ELSE filterUnshift(Tail(s), keep)

\* Array.prototype.filter with the predicate "is an element of keep"
RECURSIVE filter(_, _)
filter(s, keep) ==
    IF s = <<>> THEN <<>>
    ELSE IF Head(s) \in keep THEN <<Head(s)>> \o filter(Tail(s), keep)
    ELSE filter(Tail(s), keep)

Range(s) == {s[i] : i \in 1..Len(s)}

(***************************************************************************)
(* Request envelopes as JSON.parse delivers them.  json is the type of the *)
(* parsed value; for an object the members the handlers read are id,       *)
(* method, params (its type), params.name, params.arguments (its type),    *)
(* arguments.prompt and arguments.goals.                                   *)
(***************************************************************************)
Envelope(id, method, params, name, arguments, prompt, goals) ==
    [json |-> "object", id |-> id, method |-> method, params |-> params,
     name |-> name, arguments |-> arguments, prompt |-> prompt, goals |-> goals]

\* a JSON value that is not an object: every member read from it is undefined
NonObject(type) ==
    [json |-> type, id |-> Undefined, method |-> Undefined, params |-> Undefined,
     name |-> Undefined, arguments |-> Undefined, prompt |-> Undefined,
     goals |-> Undefined]

M(s) == Str(<<s>>)

ToolsCall(id, prompt, goals) ==
    Envelope(id, M("tools/call"), Obj, M("optimize_prompt"), Obj, prompt, goals)


(***************************************************************************)
(* Responses.  A response is what handleMessage returns or what the catch  *)
(* block of the line loop builds; the line written to standard output is   *)
(* its JSON.stringify, which leaves out every member whose value is        *)
(* undefined.                                                              *)
(***************************************************************************)
NoText == <<>>

\* { jsonrpc, id, result }
ResultResponse(id, body, isError, text) ==
    [id |-> id, kind |-> "result", code |-> 0, body |-> body,
     isError |-> isError, text |-> text]

\* { jsonrpc, id, error: { code, message } }
ErrorResponse(id, code, message) ==
    [id |-> id, kind |-> "error", code |-> code, body |-> "none",
     isError |-> FALSE, text |-> message]

\* the errorResponse of the catch block of the line loop
ParseErrorResponse == ErrorResponse(Null, -32700, <<"Parse error">>)

\* a bug: the last tag of the enum left out
goalsEnumShort ==
    <<"clarity", "conciseness", "technical_accuracy", "contextual_relevance",
      "specificity", "actionability", "structure", "technical_precision",
      "linguistic_precision">>

\* the enum of the goals items in the tool descriptor (this.tools)
goalsEnum ==
    <<"clarity", "conciseness", "technical_accuracy", "contextual_relevance",
      "specificity", "actionability", "structure", "technical_precision",
      "linguistic_precision", "holistic_effectiveness">>

\* a tool descriptor: its name, the properties of its inputSchema, what the
\* schema requires, and the type, the enum and the default of goals
Tool(name, enum) ==
    [name |-> name, properties |-> {"prompt", "goals"}, required |-> <<"prompt">>,
     goalsType |-> "array", enum |-> enum, default |-> <<"clarity">>]

\* this.tools, assigned by the constructor of MCPServer and by nothing else
tools == <<Tool("optimize_prompt", goalsEnum)>>

\* no result of initialize
NoInfo == [protocolVersion |-> "", capabilities |-> {}, name |-> "", version |-> ""]

\* a bug: the protocol version of an earlier revision
initializeResultOld ==
    [protocolVersion |-> "2024-10-07", capabilities |-> {"tools"},
     name |-> "mcp-prompt-optimizer", version |-> "1.0.0"]

\* the result of initialize: protocolVersion, the members of capabilities
\* (tools, an empty object) and the name and version of serverInfo
initializeResult ==
    [protocolVersion |-> "2024-11-05", capabilities |-> {"tools"},
     name |-> "mcp-prompt-optimizer", version |-> "1.0.0"]

\* JSON.stringify(response): the serialized line, by the members it contains;
\* the result of tools/list holds this.tools, the result of initialize the
\* protocol version, the capabilities and the server info
stringify(response) ==
    [members |-> {"jsonrpc", response.kind}
                   \cup (IF response.id.t = "undefined" THEN {} ELSE {"id"}),
     id |-> response.id, kind |-> response.kind, code |-> response.code,
     body |-> response.body, isError |-> response.isError,
     text |-> response.text,
     tools |-> IF response.body = "tools" THEN tools ELSE <<>>,
     info |-> IF response.body = "serverInfo" THEN initializeResult ELSE NoInfo]

(***************************************************************************)
(* MCPServer.handleToolCall, up to the call of apiClient.optimize.         *)
(***************************************************************************)
\* a bug: the list of handleToolCall lacks the last tag of the descriptor
validGoalsShort ==
    <<"clarity", "conciseness", "technical_accuracy", "contextual_relevance",
      "specificity", "actionability", "structure", "technical_precision",
      "linguistic_precision">>

\* const validGoals of handleToolCall
validGoals ==
    <<"clarity", "conciseness", "technical_accuracy", "contextual_relevance",
      "specificity", "actionability", "structure", "technical_precision",
      "linguistic_precision", "holistic_effectiveness">>

\* { content: [{ type: "text", text }], isError }
ToolResult(isError, text) == [isError |-> isError, text |-> text]

NoResult == ToolResult(FALSE, NoText)

\* what a handler does next: return a tool result, throw an Error, or call
\* apiClient.optimize(prompt, goals)
Return(result) ==
    [do |-> "return", result |-> result, message |-> NoText,
     prompt |-> <<>>, goals |-> <<>>]

Throw(message) ==
    [do |-> "throw", result |-> NoResult, message |-> message,
     prompt |-> <<>>, goals |-> <<>>]

CallOptimize(prompt, goals) ==
    [do |-> "optimize", result |-> NoResult, message |-> NoText,
     prompt |-> prompt, goals |-> goals]

\* a bug: the check without its trim
promptRejectedUntrimmed(prompt) ==
    \/ Falsy(prompt)
    \/ prompt.t # "string"

\* !prompt || typeof prompt !== 'string' || prompt.trim().length === 0
promptRejected(prompt) ==
    \/ Falsy(prompt)
    \/ prompt.t # "string"
    \/ Len(trim(prompt.v)) = 0

\* const { prompt, goals = ['clarity'] } = args
goalsOrDefault(goals) ==
    IF goals.t = "undefined" THEN Arr(<<"clarity">>) ELSE goals

\* a bug: no default when nothing is left
filteredGoalsWithoutDefault(goals) == filter(goals, Range(validGoals))

\* goals.filter(goal => validGoals.includes(goal)), then the default fallback
filteredGoals(goals) ==
    LET kept == filter(goals, Range(validGoals))
    IN  IF Len(kept) = 0 THEN <<"clarity">> ELSE kept

EmptyPromptResult == ToolResult(TRUE, <<"Error:", "Prompt cannot be empty">>)

\* a member read from args (params.arguments || {}): a member of anything
\* but an object is undefined
argMember(arguments, member) ==
    IF arguments.t = "object" THEN member ELSE Undefined

\* the TypeError of goals.filter(...) for goals that is not an array
filterTypeError(goals) ==
    IF goals.t = "null"
    THEN <<"Cannot read properties of null (reading 'filter')">>
    ELSE <<"goals.filter is not a function">>

\* a bug: an unknown tool reported as a tool result marked isError
handleToolCallReturningUnknown(name, arguments, promptMember, goalsMember) ==
    IF name = M("optimize_prompt")
    THEN LET prompt == argMember(arguments, promptMember)
             goals == goalsOrDefault(argMember(arguments, goalsMember))
         IN  IF promptRejected(prompt) THEN Return(EmptyPromptResult)
             ELSE IF goals.t # "array"
             THEN Throw(filterTypeError(goals))
             ELSE CallOptimize(trim(prompt.v), filteredGoals(goals.v))
    ELSE Return(ToolResult(TRUE, <<"Unknown tool:">> \o name.v))

handleToolCall(name, arguments, promptMember, goalsMember) ==
    IF name = M("optimize_prompt")
    THEN LET prompt == argMember(arguments, promptMember)
             goals == goalsOrDefault(argMember(arguments, goalsMember))
         IN  IF promptRejected(prompt) THEN Return(EmptyPromptResult)
             ELSE IF goals.t # "array"
             THEN Throw(filterTypeError(goals))
             ELSE CallOptimize(trim(prompt.v), filteredGoals(goals.v))
    ELSE Throw(<<"Unknown tool:">> \o name.v)

(***************************************************************************)
(* PromptOptimizerApiClient.optimize: what the POST can come back with,    *)
(* and what optimize returns or throws for it.                             *)
(***************************************************************************)
\* a 2xx answer; body says which members response.data has
HttpOk(body) ==
    [status |-> 200, detail |-> Undefined, body |-> body, message |-> NoText]

\* an answer with an error status, with or without data.detail
HttpError(status, detail) ==
    [status |-> status, detail |-> detail, body |-> "none",
     message |-> <<"Request failed with status code">>]

\* no answer at all (error.response is undefined): timeout, refused connection
NoResponse(message) ==
    [status |-> 0, detail |-> Undefined, body |-> "none", message |-> message]

Detail == M("server detail")

Outcomes ==
    {HttpOk("full"), HttpOk("noMetadata"), HttpOk("noConfidence"),
     HttpError(429, Detail), HttpError(429, Undefined),
     HttpError(401, Undefined),
     HttpError(400, Detail), HttpError(400, Undefined),
     HttpError(500, Undefined),
     HttpError(503, Detail), HttpError(503, Undefined),
     NoResponse(<<"timeout of 30000ms exceeded">>),
     NoResponse(<<"connect ECONNREFUSED">>)}

IsSuccess(outcome) == outcome.status = 200

\* x || fallback for a data.detail
orElse(detail, fallback) == IF Falsy(detail) THEN fallback ELSE detail.v

\* a bug: the 429 branch without error.response.data?.detail
optimizeErrorQuotaOnly(outcome) ==
    IF outcome.status = 429
    THEN <<"Quota exceeded", ". Please upgrade your plan or wait for quota reset.">>
    ELSE IF outcome.status = 401 THEN <<"API key invalid or expired">>
    ELSE IF outcome.status = 400
    THEN <<"Invalid request:">> \o orElse(outcome.detail, <<"Bad request">>)
    ELSE IF outcome.status = 500 THEN <<"Server error. Please try again later.">>
    ELSE <<"Optimization failed:">> \o orElse(outcome.detail, outcome.message)

\* the Error thrown by the catch block of optimize
optimizeError(outcome) ==
    IF outcome.status = 429
    THEN orElse(outcome.detail, <<"Quota exceeded">>)
           \o <<". Please upgrade your plan or wait for quota reset.">>
    ELSE IF outcome.status = 401 THEN <<"API key invalid or expired">>
    ELSE IF outcome.status = 400
    THEN <<"Invalid request:">> \o orElse(outcome.detail, <<"Bad request">>)
    ELSE IF outcome.status = 500 THEN <<"Server error. Please try again later.">>
    ELSE <<"Optimization failed:">> \o orElse(outcome.detail, outcome.message)

\* handleToolCall after await this.apiClient.optimize(...): the rendered
\* result, or the catch block's error result
toolResultOf(outcome, goals) ==
    IF ~IsSuccess(outcome)
    THEN ToolResult(TRUE, <<"Optimization Error:">> \o optimizeError(outcome))
    ELSE IF outcome.body = "noConfidence"
    THEN ToolResult(TRUE, <<"Optimization Error:",
                            "Cannot read properties of undefined (reading 'toFixed')">>)
    ELSE ToolResult(FALSE,
                    <<"# Optimized Prompt", "optimized text",
                      "Confidence Score:", "0.90", "Goals Applied:">> \o goals
                      \o <<"Quota Remaining:",
                           IF outcome.body = "noMetadata" THEN "Unknown" ELSE "10">>)

(***************************************************************************)
(* MCPServer.handleMessage.                                                *)
(***************************************************************************)
\* what the synchronous part of handleMessage(message) comes to: a response,
\* a rejection (the destructuring of null throws outside the try), or the
\* call of apiClient.optimize
Respond(response) ==
    [do |-> "respond", response |-> response, prompt |-> <<>>, goals |-> <<>>]

Reject ==
    [do |-> "reject", response |-> ParseErrorResponse, prompt |-> <<>>,
     goals |-> <<>>]

Await(id, prompt, goals) ==
    [do |-> "optimize", response |-> ResultResponse(id, "content", FALSE, NoText),
     prompt |-> prompt, goals |-> goals]

HandlerErrorCode == -32000

\* a bug: a method that is not known answered with an empty result
handleMessageIgnoringUnknown(message) ==
    LET id == message.id
        caught(text) == Respond(ErrorResponse(id, HandlerErrorCode, text))
    IN  IF message.json = "null" THEN Reject
        ELSE IF message.method = M("initialize")
        THEN Respond(ResultResponse(id, "serverInfo", FALSE, NoText))
        ELSE IF message.method = M("tools/list")
        THEN Respond(ResultResponse(id, "tools", FALSE, NoText))
        ELSE IF message.method = M("tools/call")
        THEN IF Falsy(message.params) \/ message.params.t # "object"
                  \/ Falsy(message.name)
             THEN caught(<<"Missing tool name in call parameters">>)
             ELSE LET step == handleToolCall(message.name, message.arguments,
                                             message.prompt, message.goals)
                  IN  IF step.do = "throw" THEN caught(step.message)
                      ELSE IF step.do = "return"
                      THEN Respond(ResultResponse(id, "content",
                                                  step.result.isError,
                                                  step.result.text))
                      ELSE Await(id, step.prompt, step.goals)
        ELSE Respond(ResultResponse(id, "none", FALSE, NoText))

handleMessage(message) ==
    LET id == message.id
        caught(text) == Respond(ErrorResponse(id, HandlerErrorCode, text))
    IN  IF message.json = "null" THEN Reject
        ELSE IF message.method = M("initialize")
        THEN Respond(ResultResponse(id, "serverInfo", FALSE, NoText))
        ELSE IF message.method = M("tools/list")
        THEN Respond(ResultResponse(id, "tools", FALSE, NoText))
        ELSE IF message.method = M("tools/call")
        THEN IF Falsy(message.params) \/ message.params.t # "object"
                  \/ Falsy(message.name)
             THEN caught(<<"Missing tool name in call parameters">>)
             ELSE LET step == handleToolCall(message.name, message.arguments,
                                             message.prompt, message.goals)
                  IN  IF step.do = "throw" THEN caught(step.message)
                      ELSE IF step.do = "return"
                      THEN Respond(ResultResponse(id, "content",
                                                  step.result.isError,
                                                  step.result.text))
                      ELSE Await(id, step.prompt, step.goals)
        ELSE caught(<<"Unknown method:">> \o message.method.v)

(***************************************************************************)
(* The input stream.  A token of the stream is the newline character, a    *)
(* whitespace character, a character that cannot occur in a JSON text, or  *)
(* the complete text of one JSON value (val is the value JSON.parse gives  *)
(* for that text alone).                                                   *)
(***************************************************************************)
NoValue == NonObject("none")

NL == [ch |-> "\n", val |-> NoValue]
SP == [ch |-> " ", val |-> NoValue]
Garbage == [ch |-> "x", val |-> NoValue]
JsonText(value) == [ch |-> "json", val |-> value]

\* String.prototype.trim on a line of tokens
RECURSIVE trimLineLeft(_)
trimLineLeft(line) ==
    IF line # <<>> /\ IsWs(Head(line).ch) THEN trimLineLeft(Tail(line)) ELSE line

RECURSIVE trimLineRight(_)
trimLineRight(line) ==
    IF line # <<>> /\ IsWs(line[Len(line)].ch)
    THEN trimLineRight(SubSeq(line, 1, Len(line) - 1)) ELSE line

trimLine(line) == trimLineRight(trimLineLeft(line))

\* JSON.parse(line): surrounding whitespace is skipped, exactly one JSON text
\* parses to its value, anything else is a SyntaxError
JSONparse(line) ==
    LET text == trimLine(line)
    IN  IF Len(text) = 1 /\ text[1].ch = "json"
        THEN [ok |-> TRUE, value |-> text[1].val]
        ELSE [ok |-> FALSE, value |-> NoValue]

\* String.prototype.split('\n'): the segments between the newlines, one more
\* than there are newlines
RECURSIVE split(_)
split(s) ==
    IF \A i \in 1..Len(s) : s[i] # NL THEN <<s>>
    ELSE LET i == CHOOSE k \in 1..Len(s) : s[k] = NL /\ \A j \in 1..(k - 1) : s[j] # NL
         IN  <<SubSeq(s, 1, i - 1)>> \o split(SubSeq(s, i + 1, Len(s)))

(***************************************************************************)
(* Config: the record kept in ~/.prompt-optimizer/config.json.  A config   *)
(* object has the members apiKey, backendUrl and updatedAt, each a JSON    *)
(* value (Undefined for a member it does not have).  The file is absent,   *)
(* holds text that does not parse, holds the JSON text of an object, or    *)
(* holds the JSON text of a value that is no object (a number other than   *)
(* 0, a string that is not empty, or true).                                *)
(***************************************************************************)
ConfigObject(apiKey, backendUrl, updatedAt) ==
    [apiKey |-> apiKey, backendUrl |-> backendUrl, updatedAt |-> updatedAt]

\* {}
EmptyObject == ConfigObject(Undefined, Undefined, Undefined)

ConfigMembers == {"apiKey", "backendUrl", "updatedAt"}

\* JSON.stringify(config, null, 2): the members whose value is undefined are
\* left out of the text
stringifyConfig(config) ==
    [members |-> {m \in ConfigMembers : config[m].t # "undefined"},
     text |-> [m \in ConfigMembers |-> config[m].v]]

\* JSON.parse(data) of such a text: a member the text does not hold reads as
\* undefined, the others are strings
parseConfig(data) ==
    LET member(m) == IF m \in data.members THEN Str(data.text[m]) ELSE Undefined
    IN  ConfigObject(member("apiKey"), member("backendUrl"), member("updatedAt"))

NoData == stringifyConfig(EmptyObject)

\* the states of the file
NoFile == [kind |-> "absent", data |-> NoData]
Unparsable == [kind |-> "unparsable", data |-> NoData]
FileOf(config) == [kind |-> "json", data |-> stringifyConfig(config)]
Primitive == [kind |-> "primitive", data |-> NoData]

\* what load() returns: the parsed object, null (found false), or the parsed
\* value that is no object and so has no member
Loaded(config) == [found |-> TRUE, object |-> TRUE, config |-> config]
LoadedNull == [found |-> FALSE, object |-> FALSE, config |-> EmptyObject]
LoadedPrimitive == [found |-> TRUE, object |-> FALSE, config |-> EmptyObject]

\* what an operation returns together with the file it leaves
Done(returns, file) == [returns |-> returns, file |-> file, threw |-> FALSE]

\* the operation throws a TypeError to its caller and leaves the file
Thrown(file) == [returns |-> FALSE, file |-> file, threw |-> TRUE]

\* fs.existsSync(this.configFile)
exists(file) == file.kind # "absent"

load(file) ==
    IF exists(file) /\ file.kind = "json" THEN Loaded(parseConfig(file.data))
    ELSE IF exists(file) /\ file.kind = "primitive" THEN LoadedPrimitive
    ELSE LoadedNull

\* a bug: the catch block of save returns true as well
saveSwallowing(file, config, written) ==
    IF written THEN Done(TRUE, FileOf(config)) ELSE Done(TRUE, file)

\* save(config); written says whether mkdirSync and writeFileSync succeed
save(file, config, written) ==
    IF written THEN Done(TRUE, FileOf(config)) ELSE Done(FALSE, file)

\* config?.apiKey
getApiKey(file) ==
    IF load(file).found THEN load(file).config.apiKey ELSE Undefined

\* this.load() || {}
loadOrEmpty(file) == IF load(file).found THEN load(file).config ELSE EmptyObject

\* a bug: the record is written anew, without this.load()
setApiKeyFresh(file, key, now, written) ==
    save(file, [EmptyObject EXCEPT !.apiKey = key, !.updatedAt = now], written)

\* config.apiKey = apiKey when this.load() || {} is no object: the body of a
\* class is strict code, where creating a property on a primitive value
\* throws a TypeError
assignThrows(file) == load(file).found /\ ~load(file).object

setApiKey(file, key, now, written) ==
    IF assignThrows(file) THEN Thrown(file)
    ELSE save(file, [loadOrEmpty(file) EXCEPT !.apiKey = key, !.updatedAt = now], written)

DefaultBackendUrl == M("https://p01--project-optimizer--fvrdk8m9k9j.code.run")

\* config?.backendUrl || the production address
getBackendUrl(file) ==
    LET url == IF load(file).found THEN load(file).config.backendUrl ELSE Undefined
    IN  IF Falsy(url) THEN DefaultBackendUrl ELSE url

setBackendUrl(file, url, now, written) ==
    IF assignThrows(file) THEN Thrown(file)
    ELSE save(file, [loadOrEmpty(file) EXCEPT !.backendUrl = url, !.updatedAt = now], written)

\* a bug: the file is emptied, not removed
clearTruncating(file, unlinked) ==
    IF exists(file) /\ unlinked THEN Done(TRUE, FileOf(EmptyObject)) ELSE Done(FALSE, file)

\* clear(); unlinked says whether unlinkSync succeeds
clear(file, unlinked) ==
    IF exists(file) /\ unlinked THEN Done(TRUE, NoFile) ELSE Done(FALSE, file)

(***************************************************************************)
(* State of a server process.                                              *)
(***************************************************************************)
VARIABLES
    phase,      \* "starting", "serving" or "exited"
    exitCode,   \* the code given to process.exit, -1 while the process runs
    apiKey,     \* the key startServer read from the config store
    stream,     \* every token the 'data' events have delivered so far
    buffer,     \* let buffer of startServer
    framed,     \* every element of every lines array so far, in order
    handlers,   \* the invocations of the 'data' handler that have not returned
    stdout,     \* the lines written to standard output, in order
    stderr,     \* the diagnostics written to standard error, in order
    requests,   \* the POSTs of apiClient.optimize sent so far, in order
    settled,    \* for each POST that has settled: its line and its outcome
    reads,      \* the number of 'data' events, counted by SpecFraming only
    env,        \* process.env: the two PROMPT_OPTIMIZER_ variables
    config,     \* the file ~/.prompt-optimizer/config.json
    validation, \* what the POST of validateKey came back with at startup
    wrote,      \* the last call of a Config method that writes, and its return
    got         \* the last call of a Config method that reads, if it came
                \* after the last write, and its return

vars ==
    <<phase, exitCode, apiKey, stream, buffer, framed, handlers, stdout, stderr,
      requests, settled, reads, env, config, validation, wrote, got>>

\* what a process does not touch once it serves
store == <<env, config, validation, wrote, got>>

\* an invocation of the 'data' handler: lines is what is left of its lines
\* array (the head is the line of the current iteration), at the position of
\* that line in framed, and first the position of the first line of the
\* array; while it is suspended in await (st = "await") id and goals are the
\* locals of handleMessage and handleToolCall
Handler(at, lines) ==
    [at |-> at, lines |-> lines, st |-> "run", id |-> Undefined, goals |-> <<>>,
     first |-> at]

\* a bug: calls are serialized, a continuation is not run while the remote
\* call of another handler is outstanding
RunningWhenNoneSuspended ==
    {h \in handlers : h.st = "run" /\ \A g \in handlers : g.st # "await"}

\* the handler whose continuation is in the microtask queue, if any: no
\* other event is dispatched before it has run
Running == {h \in handlers : h.st = "run"}

\* a bug: the end of input and the signals only mark the process as ended,
\* and the event loop goes on with what is outstanding
IdleOrDraining == Running = {}

\* a bug: no 'data', 'end' or signal event is dispatched while a remote call
\* is outstanding
IdleNothingOutstanding == phase = "serving" /\ handlers = {}

Idle == phase = "serving" /\ Running = {}

\* a bug: the loop passes over the line after the current one
advanceSkipping(h) ==
    IF Len(h.lines) <= 2 THEN {}
    ELSE {[at |-> h.at + 2, lines |-> Tail(Tail(h.lines)), st |-> "run",
           id |-> Undefined, goals |-> <<>>, first |-> h.first]}

\* the for loop moves to the next line, or the handler returns
advance(h) ==
    IF Len(h.lines) = 1 THEN {}
    ELSE {[at |-> h.at + 1, lines |-> Tail(h.lines), st |-> "run",
           id |-> Undefined, goals |-> <<>>, first |-> h.first]}

\* a bug: the try/catch around the whole loop, so that a parse error ends it
catchAndReturn(h) == {}

\* the catch block of the loop body ends the iteration, not the loop
catchAndContinue(h) == advance(h)

\* a bug: the newline after the serialized response is left out
writeUnterminated(at, response) ==
    Append(stdout, [line |-> at, out |-> stringify(response), end |-> ""])

\* process.stdout.write(JSON.stringify(response) + '\n') for line number at
write(at, response) ==
    Append(stdout, [line |-> at, out |-> stringify(response), end |-> "\n"])

(***************************************************************************)
(* startServer.                                                            *)
(***************************************************************************)
NoKey == ""

\* what config.getApiKey() can return: nothing, or a stored key
StoredKeys == {NoKey, "sk-opt-1"}

\* the file that makes it so
StoredFiles ==
    {IF key = NoKey THEN NoFile ELSE FileOf(ConfigObject(M(key), Undefined, Undefined)) :
       key \in StoredKeys}

\* the X-API-Key header the client sends for a stored key
headerOf(key) == IF key.t = "string" /\ Len(key.v) = 1 THEN key.v[1] ELSE NoKey

\* the baseURL of the axios client: the backendUrl argument of the
\* constructor of PromptOptimizerApiClient, or the default of the parameter
baseURL(backendUrl) ==
    IF backendUrl.t = "undefined"
    THEN M("https://p01--project-optimizer--fvrdk8m9k9j.code.run")
    ELSE backendUrl

\* new PromptOptimizerApiClient(apiKey) in the constructor of MCPServer: no
\* backendUrl is passed
serverBaseURL == baseURL(Undefined)

\* process.env without the PROMPT_OPTIMIZER_ variables
NoEnv == [PROMPT_OPTIMIZER_API_KEY |-> Undefined, PROMPT_OPTIMIZER_BACKEND_URL |-> Undefined]

\* no method of Config called yet
NoCall == [op |-> "none", arg |-> Undefined, returns |-> FALSE, value |-> Undefined,
           object |-> LoadedNull, existed |-> FALSE, threw |-> FALSE]

\* validateKey not called
NotValidated == [status |-> -1, detail |-> Undefined, body |-> "none", message |-> NoText]

\* what the POST of validateKey can come back with; a body of null is a 2xx
\* answer whose response.data is null
ValidateOutcomes ==
    {HttpOk("full"), HttpOk("null"), HttpError(401, Undefined),
     HttpError(403, Undefined), HttpError(429, Undefined),
     HttpError(500, Undefined), NoResponse(<<"timeout of 30000ms exceeded">>),
     NoResponse(<<"connect ECONNREFUSED">>)}

\* the Error validateKey throws for an outcome that is not 2xx
validateKeyError(outcome) ==
    IF outcome.status = 401 THEN <<"Invalid API key">>
    ELSE IF outcome.status = 403 THEN <<"API key expired or subscription inactive">>
    ELSE IF outcome.status = 429 THEN <<"Rate limit exceeded. Please try again later.">>
    ELSE <<"Validation failed:">> \o outcome.message

\* a bug: the catch block of initialize logs and goes on
initializeAnyway(outcome) == TRUE

\* what MCPServer.initialize writes with console.error: the connection
\* status when validateKey returned (nothing when userData is null, as
\* reading userData.tier throws first), and the failure in the catch block
initializeLog(outcome) ==
    IF ~IsSuccess(outcome) THEN <<"Failed to connect">>
    ELSE IF outcome.body = "null" THEN <<"Connected", "Failed to connect">>
    ELSE <<"Connected", "Tier", "Quota", "Status">>

\* MCPServer.initialize: true when validateKey returned and userData.tier
\* could be read, false when either threw
initialize(outcome) == IsSuccess(outcome) /\ outcome.body # "null"

Init ==
    /\ phase = "starting"
    /\ exitCode = -1
    /\ apiKey = NoKey
    /\ stream = <<>>
    /\ buffer = <<>>
    /\ framed = <<>>
    /\ handlers = {}
    /\ stdout = <<>>
    /\ stderr = <<>>
    /\ requests = <<>>
    /\ settled = {}
    /\ reads = 0
    /\ env = NoEnv
    /\ config \in StoredFiles
    /\ validation = NotValidated
    /\ wrote = NoCall
    /\ got = NoCall

\* startServer up to the registration of the stream handlers: no key, or a
\* key that server.initialize() does not get validated, ends the process
StartServer ==
    /\ phase = "starting"
    /\ LET key == getApiKey(config)
       IN  IF Falsy(key)
           THEN /\ apiKey' = NoKey
                /\ phase' = "exited" /\ exitCode' = 1
                /\ stderr' = stderr \o <<"No API key found">>
                /\ UNCHANGED validation
           ELSE \E outcome \in ValidateOutcomes :
                   /\ apiKey' = headerOf(key)
                   /\ validation' = outcome
                   /\ IF initialize(outcome)
                      THEN /\ phase' = "serving" /\ exitCode' = exitCode
                           /\ stderr' = stderr \o initializeLog(outcome)
                                               \o <<"Server running">>
                      ELSE /\ phase' = "exited" /\ exitCode' = 1
                           /\ stderr' = stderr \o initializeLog(outcome)
                                               \o <<"If your API key is invalid">>
    /\ UNCHANGED <<stream, buffer, framed, handlers, stdout, requests, settled,
                   reads, env, config, wrote, got>>

\* a bug: the key is read from the config file again for every request
clientHeaderFromStore == headerOf(getApiKey(config))

\* the X-API-Key header of the axios instance the constructor of
\* PromptOptimizerApiClient created: the key it was given then
clientHeader == apiKey

\* a bug: the partial line is not kept
popNothing(parts) == <<>>

\* what lines.pop() returns: the segment after the last newline
pop(parts) == parts[Len(parts)]

\* the synchronous part of the 'data' handler: buffer += chunk, split, pop
OnData(chunk) ==
    LET parts == split(buffer \o chunk)
        lines == SubSeq(parts, 1, Len(parts) - 1)
    IN  /\ stream' = stream \o chunk
        /\ buffer' = pop(parts)
        /\ framed' = framed \o lines
        /\ handlers' = IF lines = <<>> THEN handlers
                       ELSE handlers \cup {Handler(Len(framed) + 1, lines)}
        /\ UNCHANGED <<phase, exitCode, apiKey, stdout, stderr, requests, settled,
                       store>>

\* a bug: if (line) in place of if (line.trim())
skippedIfEmpty(line) == line = <<>>

\* the lines the loop body passes over: !line.trim()
skipped(line) == trimLine(line) = <<>>

\* one iteration of the for loop of a 'data' handler, up to its await of the
\* remote call or to the end of the iteration
HandleLine ==
    /\ phase = "serving"
    /\ \E h \in Running :
          LET line == Head(h.lines)
              parsed == JSONparse(line)
              step == handleMessage(parsed.value)
          IN  IF skipped(line)
              THEN /\ handlers' = (handlers \ {h}) \cup advance(h)
                   /\ UNCHANGED <<stdout, stderr, requests>>
              ELSE IF ~parsed.ok \/ step.do = "reject"
              THEN /\ stderr' = Append(stderr, "Protocol error:")
                   /\ stdout' = write(h.at, ParseErrorResponse)
                   /\ handlers' = (handlers \ {h}) \cup catchAndContinue(h)
                   /\ UNCHANGED requests
              ELSE IF step.do = "respond"
              THEN /\ stdout' = write(h.at, step.response)
                   /\ handlers' = (handlers \ {h}) \cup advance(h)
                   /\ UNCHANGED <<stderr, requests>>
              ELSE /\ requests' = Append(requests,
                                         [line |-> h.at, prompt |-> step.prompt,
                                          goals |-> step.goals, key |-> clientHeader,
                                          url |-> serverBaseURL])
                   /\ handlers' = (handlers \ {h})
                                    \cup {[h EXCEPT !.st = "await",
                                                    !.id = parsed.value.id,
                                                    !.goals = step.goals]}
                   /\ UNCHANGED <<stdout, stderr>>
    /\ UNCHANGED <<phase, exitCode, apiKey, stream, buffer, framed, settled, reads,
                   store>>

\* a bug: the id of the response is read from a field shared by all requests,
\* which holds the id of the request sent last
resumeWithSharedId(id, goals, outcome) ==
    LET result == toolResultOf(outcome, goals)
        last == requests[Len(requests)].line
    IN  ResultResponse(JSONparse(framed[last]).value.id, "content",
                       result.isError, result.text)

\* a bug: handleToolCall without its try/catch, so that the Error of
\* optimize reaches the catch block of handleMessage
resumeRethrowing(id, goals, outcome) ==
    IF IsSuccess(outcome)
    THEN ResultResponse(id, "content", FALSE, toolResultOf(outcome, goals).text)
    ELSE ErrorResponse(id, HandlerErrorCode, optimizeError(outcome))

\* handleMessage after the awaited optimize call has settled
handleMessageResume(id, goals, outcome) ==
    LET result == toolResultOf(outcome, goals)
    IN  ResultResponse(id, "content", result.isError, result.text)

\* the remote call of a suspended handler settles: the response is written
\* and the loop goes on
RemoteSettles(outcomes) ==
    /\ Idle
    /\ \E h \in handlers, outcome \in outcomes :
          /\ h.st = "await"
          /\ stdout' = write(h.at, handleMessageResume(h.id, h.goals, outcome))
          /\ handlers' = (handlers \ {h}) \cup advance(h)
          /\ settled' = settled \cup {[line |-> h.at, outcome |-> outcome]}
    /\ UNCHANGED <<phase, exitCode, apiKey, stream, buffer, framed, stderr, requests,
                   reads, store>>

\* a bug: the end of the process reported as a failure
exit1 ==
    /\ phase' = "exited"
    /\ exitCode' = 1
    /\ UNCHANGED <<apiKey, stream, buffer, framed, handlers, stdout, requests,
                   settled, reads, store>>

\* process.exit(0) of the 'end', SIGINT and SIGTERM handlers
exit0 ==
    /\ phase' = "exited"
    /\ exitCode' = 0
    /\ UNCHANGED <<apiKey, stream, buffer, framed, handlers, stdout, requests,
                   settled, reads, store>>

\* a bug: at the end of input what is left in the buffer is taken as a last
\* line and handed to the loop
EndFlushing ==
    /\ Idle
    /\ buffer # <<>>
    /\ framed' = Append(framed, buffer)
    /\ buffer' = <<>>
    /\ handlers' = handlers \cup {Handler(Len(framed) + 1, <<buffer>>)}
    /\ UNCHANGED <<phase, exitCode, apiKey, stream, stdout, stderr, requests,
                   settled, reads, store>>

\* the 'end' handler of process.stdin
End == Idle /\ exit0 /\ stderr' = Append(stderr, "MCP connection closed")

Sigint == Idle /\ exit0 /\ stderr' = Append(stderr, "MCP server shutting down...")

Sigterm == Idle /\ exit0 /\ stderr' = Append(stderr, "MCP server shutting down...")

(***************************************************************************)
(* The dispatcher under every input stream of at most MaxStream tokens,    *)
(* cut into chunks in every way.                                           *)
(***************************************************************************)
Call1 == ToolsCall(Num("1"), Str(<<" ", "p">>), Arr(<<"structure", "bogus", "clarity">>))
Call2 == ToolsCall(Num("2"), Str(<<"q">>), Undefined)
List3 == Envelope(Num("3"), M("tools/list"), Undefined, Undefined, Undefined,
                  Undefined, Undefined)

Alphabet == {NL, SP, Garbage, JsonText(Call1), JsonText(Call2), JsonText(List3)}

\* one outcome of each kind optimize tells apart
StreamOutcomes ==
    {HttpOk("full"), HttpError(429, Detail), HttpError(401, Undefined),
     HttpError(400, Undefined), HttpError(500, Undefined),
     HttpError(503, Undefined), NoResponse(<<"timeout of 30000ms exceeded">>)}

SeqsUpTo(S, n) == UNION {[1..k -> S] : k \in 1..n}

Data ==
    /\ Idle
    /\ \E chunk \in SeqsUpTo(Alphabet, MaxStream - Len(stream)) : OnData(chunk)
    /\ UNCHANGED reads

Next ==
    \/ StartServer
    \/ Data
    \/ HandleLine
    \/ RemoteSettles(StreamOutcomes)
    \/ End
    \/ Sigint
    \/ Sigterm

Spec == Init /\ [][Next]_vars

(***************************************************************************)
(* The framing of startServer under every stream of at most MaxStream      *)
(* tokens whose lines need no remote call, cut into chunks in every way,   *)
(* with the 'data' events counted.                                         *)
(***************************************************************************)
Serving ==
    /\ phase = "serving"
    /\ exitCode = -1
    /\ apiKey = "sk-opt-1"
    /\ stream = <<>>
    /\ buffer = <<>>
    /\ framed = <<>>
    /\ handlers = {}
    /\ stdout = <<>>
    /\ stderr = initializeLog(HttpOk("full")) \o <<"Server running">>
    /\ requests = <<>>
    /\ settled = {}
    /\ reads = 0
    /\ env = NoEnv
    /\ config = FileOf(ConfigObject(M("sk-opt-1"), Undefined, Undefined))
    /\ validation = HttpOk("full")
    /\ wrote = NoCall
    /\ got = NoCall

FramingAlphabet == {NL, SP, Garbage, JsonText(List3)}

Read ==
    /\ Idle
    /\ \E chunk \in SeqsUpTo(FramingAlphabet, MaxStream - Len(stream)) : OnData(chunk)
    /\ reads' = reads + 1

NextFraming ==
    \/ Read
    \/ HandleLine

SpecFraming == Serving /\ [][NextFraming]_vars

(***************************************************************************)
(* handleMessage under every request of a bounded set: a running server    *)
(* reads one line holding the request, handles it and, for a call of       *)
(* optimize_prompt that gets that far, sees the remote call settle.  The   *)
(* line can also be one that holds no request, and the input can end or a  *)
(* signal arrive whenever no handler is running.                           *)
(***************************************************************************)
Ids == {Num("1"), Str(<<"a">>), Null, Undefined}

Methods ==
    {M("initialize"), M("tools/list"), M("resources/list"), Undefined, Num("7")}

\* params that are not an object
NonObjects == {Undefined, Null, Str(<<"x">>), Num("5"), Arr(<<>>)}

Names == {Undefined, Null, Str(<<>>), M("other_tool"), Num("5")}

Prompts ==
    {Undefined, Null, Num("5"), Arr(<<"p">>), Str(<<>>), Str(<<" ">>),
     Str(<<"\t", " ">>), Str(<<"p">>), Str(<<" ", "p", " ">>),
     Str(<<"\t", "p", " ", "q", " ">>)}

GoalTags == {"clarity", "structure", "not_a_real_goal"}

GoalLists ==
    {<<>>} \cup SeqsUpTo(GoalTags, MaxGoals)
           \cup {<<g>> : g \in Range(goalsEnum) \cup Range(validGoals)}

Goals == {Undefined, Null, Str(<<"clarity">>), Obj} \cup {Arr(g) : g \in GoalLists}

Requests ==
    {NonObject(type) : type \in {"null", "number", "string", "array", "boolean"}}
    \cup {Envelope(id, method, Undefined, Undefined, Undefined, Undefined, Undefined) :
            id \in Ids, method \in Methods}
    \cup {Envelope(id, M("tools/call"), params, Undefined, Undefined, Undefined, Undefined) :
            id \in Ids, params \in NonObjects}
    \cup {Envelope(id, M("tools/call"), Obj, name, Undefined, Undefined, Undefined) :
            id \in Ids, name \in Names}
    \cup {Envelope(id, M("tools/call"), Obj, M("optimize_prompt"), arguments,
                   Undefined, Undefined) :
            id \in Ids, arguments \in NonObjects}
    \cup {ToolsCall(id, prompt, goals) :
            id \in Ids, prompt \in Prompts, goals \in Goals}

ReadRequest ==
    /\ Idle
    /\ stream = <<>>
    /\ \E request \in Requests : OnData(<<JsonText(request), NL>>)
    /\ UNCHANGED reads

\* lines that hold no request: blank ones, ones that do not parse, and a
\* request with whitespace around it
OtherLines ==
    {<<>>, <<SP>>, <<SP, SP>>, <<Garbage>>, <<SP, Garbage>>,
     <<JsonText(List3), Garbage>>, <<SP, JsonText(List3), SP>>}

ReadOther ==
    /\ Idle
    /\ stream = <<>>
    /\ \E line \in OtherLines : OnData(line \o <<NL>>)
    /\ UNCHANGED reads

NextMessage ==
    \/ ReadRequest
    \/ ReadOther
    \/ HandleLine
    \/ RemoteSettles(Outcomes)
    \/ End
    \/ Sigint
    \/ Sigterm

SpecMessage == Serving /\ [][NextMessage]_vars

(***************************************************************************)
(* Config under every sequence of calls of its methods, from every state   *)
(* of the file, with writes and unlinks that succeed or fail.  No server   *)
(* process runs.                                                           *)
(***************************************************************************)
Keys == {Undefined, Str(<<>>), M("sk-opt-1"), M("sk-opt-2")}

Urls == {Undefined, Str(<<>>), M("http://localhost:8000")}

\* what new Date().toISOString() can give
Times == {M("2025-01-01T00:00:00.000Z"), M("2025-01-02T00:00:00.000Z")}

ConfigObjects ==
    {ConfigObject(key, url, Undefined) : key \in Keys, url \in Urls}

ConfigInit ==
    /\ phase = "starting"
    /\ exitCode = -1
    /\ apiKey = NoKey
    /\ stream = <<>>
    /\ buffer = <<>>
    /\ framed = <<>>
    /\ handlers = {}
    /\ stdout = <<>>
    /\ stderr = <<>>
    /\ requests = <<>>
    /\ settled = {}
    /\ reads = 0
    /\ env = NoEnv
    /\ config \in {NoFile, Unparsable, Primitive}
    /\ validation = NotValidated
    /\ wrote = NoCall
    /\ got = NoCall

server ==
    <<phase, exitCode, apiKey, stream, buffer, framed, handlers, stdout, stderr,
      requests, settled, reads, env, validation>>

\* a call of a method that writes: what it was given, what it returned,
\* whether the file existed when it was called, and whether the call threw
Wrote(op, arg, object, done) ==
    /\ config' = done.file
    /\ wrote' = [op |-> op, arg |-> arg, returns |-> done.returns,
                 value |-> Undefined, object |-> object, existed |-> exists(config),
                 threw |-> done.threw]
    /\ got' = NoCall
    /\ UNCHANGED server

\* a call of a method that reads: what it returned
Got(op, returns, value, object) ==
    /\ got' = [op |-> op, arg |-> Undefined, returns |-> returns, value |-> value,
               object |-> object, existed |-> exists(config), threw |-> FALSE]
    /\ UNCHANGED <<config, wrote, server>>

Save ==
    \E object \in ConfigObjects, written \in BOOLEAN :
        Wrote("save", Undefined, Loaded(object), save(config, object, written))

SetApiKey ==
    \E key \in Keys, now \in Times, written \in BOOLEAN :
        Wrote("setApiKey", key, LoadedNull, setApiKey(config, key, now, written))

SetBackendUrl ==
    \E url \in Urls, now \in Times, written \in BOOLEAN :
        Wrote("setBackendUrl", url, LoadedNull, setBackendUrl(config, url, now, written))

Clear ==
    \E unlinked \in BOOLEAN :
        Wrote("clear", Undefined, LoadedNull, clear(config, unlinked))

Load == Got("load", load(config).found, Undefined, load(config))

GetApiKey == Got("getApiKey", FALSE, getApiKey(config), LoadedNull)

GetBackendUrl == Got("getBackendUrl", FALSE, getBackendUrl(config), LoadedNull)

Exists == Got("exists", exists(config), Undefined, LoadedNull)

NextConfig ==
    \/ Save
    \/ SetApiKey
    \/ SetBackendUrl
    \/ Clear
    \/ Load
    \/ GetApiKey
    \/ GetBackendUrl
    \/ Exists

SpecConfig == ConfigInit /\ [][NextConfig]_vars

(***************************************************************************)
(* startServer under every environment and every stored configuration: the *)
(* process starts, reads one request and answers it.                       *)
(***************************************************************************)
Envs ==
    {[PROMPT_OPTIMIZER_API_KEY |-> key, PROMPT_OPTIMIZER_BACKEND_URL |-> url] :
       key \in {Undefined, M("sk-opt-env")},
       url \in {Undefined, M("http://localhost:9000")}}

StartupFiles ==
    {NoFile,
     FileOf(ConfigObject(M("sk-opt-1"), Undefined, Undefined)),
     FileOf(ConfigObject(M("sk-opt-1"), M("http://localhost:8000"), Undefined))}

StartupInit ==
    /\ phase = "starting"
    /\ exitCode = -1
    /\ apiKey = NoKey
    /\ stream = <<>>
    /\ buffer = <<>>
    /\ framed = <<>>
    /\ handlers = {}
    /\ stdout = <<>>
    /\ stderr = <<>>
    /\ requests = <<>>
    /\ settled = {}
    /\ reads = 0
    /\ env \in Envs
    /\ config \in StartupFiles
    /\ validation = NotValidated
    /\ wrote = NoCall
    /\ got = NoCall

ReadCall ==
    /\ Idle
    /\ stream = <<>>
    /\ \E request \in {Call1, Call2, List3} : OnData(<<JsonText(request), NL>>)
    /\ UNCHANGED reads

NextStartup ==
    \/ StartServer
    \/ ReadCall
    \/ HandleLine
    \/ RemoteSettles(StreamOutcomes)
    \/ End

SpecStartup == StartupInit /\ [][NextStartup]_vars

(***************************************************************************)
(* A server process while other processes run setup or clear the file:     *)
(* the server starts, reads one request and answers it, and once it has    *)
(* exited a new server process can be started.                             *)
(***************************************************************************)
\* String.prototype.startsWith
startsWith(text, prefix) ==
    Len(text) >= Len(prefix) /\ SubSeq(text, 1, Len(prefix)) = prefix

\* a bug: setup saves whatever was entered
setupUnchecked(file, input, now, written) == setApiKey(file, input, now, written)

\* the callback of rl.question in setup, given the line entered: returns
\* says whether the process ends with exit code 0; process.exit(1), and a
\* TypeError of setApiKey that nothing catches, end it with a code that is
\* not 0
setup(file, input, now, written) ==
    IF Falsy(input) \/ ~startsWith(headerOf(input), "sk-opt-")
    THEN Done(FALSE, file)
    ELSE setApiKey(file, input, now, written)

\* what can be entered at the prompt of setup
SetupInputs == {Str(<<>>), M("sk-opt-2"), M("sk-2"), M("my-sk-opt-2")}

SessionFiles == {FileOf(ConfigObject(M("sk-opt-1"), Undefined, Undefined)), Primitive}

SessionInit ==
    /\ phase = "starting"
    /\ exitCode = -1
    /\ apiKey = NoKey
    /\ stream = <<>>
    /\ buffer = <<>>
    /\ framed = <<>>
    /\ handlers = {}
    /\ stdout = <<>>
    /\ stderr = <<>>
    /\ requests = <<>>
    /\ settled = {}
    /\ reads = 0
    /\ env = NoEnv
    /\ config \in SessionFiles
    /\ validation = NotValidated
    /\ wrote = NoCall
    /\ got = NoCall

\* another process runs mcp-prompt-optimizer --setup
Setup ==
    \E input \in SetupInputs, now \in Times, written \in BOOLEAN :
        Wrote("setup", input, LoadedNull, setup(config, input, now, written))

\* mcp-prompt-optimizer is run again after the server process has exited
Restart ==
    /\ phase = "exited"
    /\ phase' = "starting"
    /\ exitCode' = -1
    /\ apiKey' = NoKey
    /\ stream' = <<>>
    /\ buffer' = <<>>
    /\ framed' = <<>>
    /\ handlers' = {}
    /\ stdout' = <<>>
    /\ stderr' = <<>>
    /\ requests' = <<>>
    /\ settled' = {}
    /\ validation' = NotValidated
    /\ UNCHANGED <<reads, env, config, wrote, got>>

NextSession ==
    \/ StartServer
    \/ ReadCall
    \/ HandleLine
    \/ RemoteSettles(StreamOutcomes)
    \/ End
    \/ Sigint
    \/ Sigterm
    \/ Setup
    \/ Clear
    \/ Restart

SpecSession == SessionInit /\ [][NextSession]_vars

(***************************************************************************)
(* A running server that reads whole lines, one per 'data' event, each an  *)
(* initialize, a tools/list or a call of optimize_prompt, or a line that   *)
(* does not parse, up to MaxLines lines.                                   *)
(***************************************************************************)
Initialize4 == Envelope(Str(<<"a">>), M("initialize"), Undefined, Undefined, Undefined,
                  Undefined, Undefined)
Initialize5 == Envelope(Undefined, M("initialize"), Obj, Undefined, Undefined,
                  Undefined, Undefined)

HandshakeLines ==
    {<<Garbage>>} \cup {<<JsonText(r)>> : r \in {Initialize4, Initialize5, Call1, List3}}

ReadLine ==
    /\ Idle
    /\ Len(framed) < MaxLines
    /\ \E line \in HandshakeLines : OnData(line \o <<NL>>)
    /\ UNCHANGED reads

NextHandshake ==
    \/ ReadLine
    \/ HandleLine
    \/ RemoteSettles(StreamOutcomes)

SpecHandshake == Serving /\ [][NextHandshake]_vars

(***************************************************************************)
(* Properties.  The lines are read off framed and the answers off stdout,  *)
(* without the operators of the handlers.                                  *)
(***************************************************************************)
NonWs(line) == SelectSeq(line, LAMBDA c : c.ch \notin {" ", "\t", "\r"})

\* the line is empty or whitespace only
Blank(line) == NonWs(line) = <<>>

\* the line is the text of one JSON value
WellFormed(line) == Len(NonWs(line)) = 1 /\ NonWs(line)[1].ch = "json"

ValueOf(line) == NonWs(line)[1].val

\* the line is a request with a non-null id
HasId(line) ==
    /\ WellFormed(line)
    /\ ValueOf(line).json = "object"
    /\ ValueOf(line).id.t \notin {"undefined", "null"}

\* the positions in stdout of the lines written for line k
ResponsesTo(k) == {i \in DOMAIN stdout : stdout[i].line = k}

\* the positions in requests of the POSTs sent for line k
RequestsFor(k) == {j \in DOMAIN requests : requests[j].line = k}

\* line k is in the lines array of a handler that has not finished with it
Pending(k) == \E h \in handlers : h.at <= k /\ k < h.at + Len(h.lines)

\* line k is a tools/call that names optimize_prompt
IsOptimizeCall(line) ==
    /\ WellFormed(line)
    /\ ValueOf(line).json = "object"
    /\ ValueOf(line).method = Str(<<"tools/call">>)
    /\ ValueOf(line).params.t = "object"
    /\ ValueOf(line).name = Str(<<"optimize_prompt">>)

\* the prompt of the call: absent unless arguments is an object
PromptOf(line) ==
    IF ValueOf(line).arguments.t = "object" THEN ValueOf(line).prompt ELSE Undefined

\* the prompt is absent, not a string, empty or all whitespace
BadPrompt(line) ==
    \/ PromptOf(line).t # "string"
    \/ \A j \in 1..Len(PromptOf(line).v) : PromptOf(line).v[j] \in {" ", "\t", "\r"}

\* the line written is a successful RPC response carrying a tool result
IsToolResult(out) ==
    /\ out.kind = "result"
    /\ "result" \in out.members
    /\ "error" \notin out.members
    /\ out.body = "content"

\* the line written is an RPC error response with the given code
IsRpcError(out, code) ==
    /\ out.kind = "error"
    /\ "error" \in out.members
    /\ "result" \notin out.members
    /\ out.code = code
    /\ ~out.isError

\* the line written carries the id of the request of this line
EchoesId(out, line) ==
    /\ out.id = ValueOf(line).id
    /\ ("id" \in out.members) = (ValueOf(line).id.t # "undefined")

(* C1: under every chunking and every interleaving of handlers and remote  *)
(* completions, a request line with a non-null id has at most one response *)
(* line, and every response written for it carries the id of that request. *)
C1_AtMostOneResponseWithOwnId ==
    \A k \in DOMAIN framed :
        HasId(framed[k]) =>
            /\ Cardinality(ResponsesTo(k)) <= 1
            /\ \A i \in ResponsesTo(k) :
                  /\ "id" \in stdout[i].out.members
                  /\ stdout[i].out.id = ValueOf(framed[k]).id

\* a call of a later chunk has been answered while a call with another id,
\* of an earlier chunk, is still in flight
C1_Witness ==
    \E h \in handlers :
        /\ h.st = "await"
        /\ \E s \in settled :
              /\ s.line > h.at
              /\ ResponsesTo(s.line) # {}
              /\ ValueOf(framed[s.line]).id # h.id

(* C2: when the process has ended after input end or a signal, every       *)
(* complete request line with a non-null id that was read has its          *)
(* response.                                                               *)
C2_AnsweredDespiteShutdown ==
    (phase = "exited" /\ exitCode = 0) =>
        \A k \in DOMAIN framed :
            HasId(framed[k]) =>
                \E i \in ResponsesTo(k) : stdout[i].out.id = ValueOf(framed[k]).id

(* C3: a non-blank line that is not valid JSON gets exactly one response,  *)
(* the parse error -32700 with id null, and every well-formed line after   *)
(* it is still answered, once, with its own id.                            *)
C3_ParseErrorIsolated ==
    \A k \in DOMAIN framed :
        (~Blank(framed[k]) /\ ~WellFormed(framed[k])) =>
            /\ \A i \in ResponsesTo(k) :
                  /\ IsRpcError(stdout[i].out, -32700)
                  /\ stdout[i].out.id = Null
                  /\ "id" \in stdout[i].out.members
            /\ ~Pending(k) => Cardinality(ResponsesTo(k)) = 1
            /\ \A n \in DOMAIN framed :
                  (n > k /\ WellFormed(framed[n]) /\ ~Pending(n)) =>
                      /\ Cardinality(ResponsesTo(n)) = 1
                      /\ \A i \in ResponsesTo(n) :
                            /\ EchoesId(stdout[i].out, framed[n])
                            /\ stdout[i].out.code # -32700

\* a line that is not JSON and the request after it, of the same read, have
\* both been answered, in that order
C3_Witness ==
    \E k \in DOMAIN framed :
        /\ ~Blank(framed[k]) /\ ~WellFormed(framed[k])
        /\ k + 1 \in DOMAIN framed
        /\ HasId(framed[k + 1])
        /\ Len(stream) = Len(framed[k]) + Len(framed[k + 1]) + 2
        /\ \E i \in ResponsesTo(k), j \in ResponsesTo(k + 1) :
              i < j /\ stdout[j].out.kind = "result"

\* the positions of the newlines of the stream
Newlines == {i \in DOMAIN stream : stream[i].ch = "\n"}

\* the position of the k-th newline, 0 for k = 0
Newline(k) ==
    IF k = 0 THEN 0
    ELSE CHOOSE i \in Newlines : Cardinality({j \in Newlines : j <= i}) = k

\* the k-th newline-terminated segment of the stream
Segment(k) == SubSeq(stream, Newline(k - 1) + 1, Newline(k) - 1)

(* C4: however the stream is cut into chunks, the lines of the lines       *)
(* arrays, in order, are exactly the newline-terminated segments of the    *)
(* stream received, none lost, duplicated or merged, and after each read   *)
(* the buffer holds exactly what was received after the last newline.      *)
C4_FramingIsChunkInvariant ==
    /\ Len(framed) = Cardinality(Newlines)
    /\ \A k \in DOMAIN framed : framed[k] = Segment(k)
    /\ buffer = SubSeq(stream, Newline(Cardinality(Newlines)) + 1, Len(stream))

\* a stream read one token at a time, in which a request line of two tokens
\* follows another line and has been answered with its id
C4_Witness ==
    /\ reads = Len(stream)
    /\ \E k \in DOMAIN framed :
          /\ k > 1
          /\ Len(framed[k]) >= 2
          /\ HasId(framed[k])
          /\ \E i \in ResponsesTo(k) : stdout[i].out.id = ValueOf(framed[k]).id

\* line k is a tools/call whose params.name is present and is not
\* optimize_prompt
NamesOtherTool(line) ==
    /\ WellFormed(line)
    /\ ValueOf(line).json = "object"
    /\ ValueOf(line).method = Str(<<"tools/call">>)
    /\ ValueOf(line).params.t = "object"
    /\ ValueOf(line).name.t # "undefined"
    /\ ValueOf(line).name # Str(<<"optimize_prompt">>)

(* C5: a tools/call whose params.name is present and is not                *)
(* optimize_prompt is answered, once handled, by a protocol-level error:   *)
(* an error member with code -32000 and the id of the request, no result   *)
(* member, no tool result, and no call of the remote service.              *)
C5_UnknownToolIsProtocolError ==
    \A k \in DOMAIN framed :
        NamesOtherTool(framed[k]) =>
            /\ ~Pending(k) => Cardinality(ResponsesTo(k)) = 1
            /\ RequestsFor(k) = {}
            /\ \A i \in ResponsesTo(k) :
                  /\ IsRpcError(stdout[i].out, -32000)
                  /\ EchoesId(stdout[i].out, framed[k])

\* the call of a tool other_tool with id 1 has been answered
C5_Witness ==
    \E k \in DOMAIN framed :
        /\ NamesOtherTool(framed[k])
        /\ ValueOf(framed[k]).name = Str(<<"other_tool">>)
        /\ ValueOf(framed[k]).id = Num("1")
        /\ \E i \in ResponsesTo(k) : stdout[i].out.kind = "error"

(* C6: optimize_prompt called with a prompt that is absent, not a string,  *)
(* empty or all whitespace is answered, once handled, by a successful RPC  *)
(* response (result member, no error member, the id of the request) whose  *)
(* tool result has isError true and a text that names the empty prompt;    *)
(* the remote service is not called.                                       *)
C6_EmptyPromptIsToolError ==
    \A k \in DOMAIN framed :
        (IsOptimizeCall(framed[k]) /\ BadPrompt(framed[k])) =>
            /\ ~Pending(k) => Cardinality(ResponsesTo(k)) = 1
            /\ RequestsFor(k) = {}
            /\ \A i \in ResponsesTo(k) :
                  /\ IsToolResult(stdout[i].out)
                  /\ EchoesId(stdout[i].out, framed[k])
                  /\ stdout[i].out.isError
                  /\ "Prompt cannot be empty" \in Range(stdout[i].out.text)

\* a call whose prompt is whitespace only, with a valid goals list, has been
\* answered
C6_Witness ==
    \E k \in DOMAIN framed :
        /\ IsOptimizeCall(framed[k])
        /\ PromptOf(framed[k]) = Str(<<"\t", " ">>)
        /\ ValueOf(framed[k]).goals = Arr(<<"clarity">>)
        /\ \E i \in ResponsesTo(k) : stdout[i].out.isError

(* C7: every failure of the remote optimize call (429, 401, 400, 500,      *)
(* another status, no response) is answered by exactly one successful RPC  *)
(* response with the id of the request whose tool result has isError true  *)
(* and a message, never by an RPC error; the process does not end by it    *)
(* and the lines after it are handled.                                     *)
C7_RemoteFailureIsToolError ==
    \A s \in settled :
        ~IsSuccess(s.outcome) =>
            /\ Cardinality(ResponsesTo(s.line)) = 1
            /\ \A i \in ResponsesTo(s.line) :
                  /\ IsToolResult(stdout[i].out)
                  /\ EchoesId(stdout[i].out, framed[s.line])
                  /\ stdout[i].out.isError
                  /\ Len(stdout[i].out.text) >= 2
                  /\ stdout[i].out.text[1] = "Optimization Error:"
            /\ exitCode \in {-1, 0}
            /\ ~Pending(s.line)
            /\ \A n \in DOMAIN framed :
                  (n > s.line /\ ~Blank(framed[n]) /\ ~Pending(n)) =>
                      Cardinality(ResponsesTo(n)) = 1

\* a call has failed with no response from the service, and the request on
\* the next line has been answered after it
C7_Witness ==
    \E s \in settled :
        /\ s.outcome.status = 0
        /\ s.line + 1 \in DOMAIN framed
        /\ HasId(framed[s.line + 1])
        /\ \E i \in ResponsesTo(s.line), j \in ResponsesTo(s.line + 1) :
              i < j /\ stdout[i].out.isError

\* the caller's goals list of line k
CallerGoals(line) ==
    IF ValueOf(line).arguments.t = "object" THEN ValueOf(line).goals ELSE Undefined

\* the subsequence of the tags of the descriptor's enum
KnownTags(list) == SelectSeq(list, LAMBDA g : g \in Range(goalsEnum))

(* C8: the goal list of an optimize request is the caller's list filtered  *)
(* to the enumerated goal set, order kept, unknown tags dropped: whenever  *)
(* the caller's list holds a known tag, it is exactly the subsequence of   *)
(* its known tags.                                                         *)
C8_GoalsAreKnownSubsequence ==
    \A j \in DOMAIN requests :
        LET line == framed[requests[j].line]
        IN  (CallerGoals(line).t = "array" /\ KnownTags(CallerGoals(line).v) # <<>>) =>
                requests[j].goals = KnownTags(CallerGoals(line).v)

\* the request for [clarity, not_a_real_goal, structure] has gone out with
\* [clarity, structure]
C8_Witness ==
    \E j \in DOMAIN requests :
        /\ CallerGoals(framed[requests[j].line])
             = Arr(<<"clarity", "not_a_real_goal", "structure">>)
        /\ requests[j].goals = <<"clarity", "structure">>

\* line k has been taken up by the loop: it is not waiting for its iteration
Taken(k) ==
    ~\E h \in handlers :
        /\ k < h.at + Len(h.lines)
        /\ \/ h.st = "run" /\ h.at <= k
           \/ h.st = "await" /\ h.at < k

\* the outcome of the remote call of line k makes handleToolCall fail
FailedFor(k) ==
    \E s \in settled :
        s.line = k /\ (~IsSuccess(s.outcome) \/ s.outcome.body = "noConfidence")

(* C9: when the caller's goals are absent, an empty list or only unknown   *)
(* tags, a call with a valid prompt does not fail: one optimize request    *)
(* goes out with goals [clarity], and the answer is a tool result that is  *)
(* marked isError only if the remote call failed.                          *)
C9_DefaultGoalSubstituted ==
    \A k \in DOMAIN framed :
        LET line == framed[k]
        IN  ( /\ IsOptimizeCall(line)
              /\ ~BadPrompt(line)
              /\ \/ CallerGoals(line).t = "undefined"
                 \/ CallerGoals(line).t = "array" /\ KnownTags(CallerGoals(line).v) = <<>>
              /\ Taken(k) ) =>
                /\ Cardinality(RequestsFor(k)) = 1
                /\ \A j \in RequestsFor(k) : requests[j].goals = <<"clarity">>
                /\ \A i \in ResponsesTo(k) :
                      /\ IsToolResult(stdout[i].out)
                      /\ stdout[i].out.isError => FailedFor(k)

\* the call with goals [not_a_real_goal] has gone out with [clarity] and has
\* been answered without isError
C9_Witness ==
    \E k \in DOMAIN framed :
        /\ IsOptimizeCall(framed[k])
        /\ CallerGoals(framed[k]) = Arr(<<"not_a_real_goal">>)
        /\ \E j \in RequestsFor(k) : requests[j].goals = <<"clarity">>
        /\ \E i \in ResponsesTo(k) : ~stdout[i].out.isError

(* C10: per handled line, the number of optimize requests sent is one for  *)
(* a tools/call of optimize_prompt that passes prompt validation and zero  *)
(* for every other line.                                                   *)
C10_OneRequestPerValidCall ==
    \A k \in DOMAIN framed :
        ~Pending(k) =>
            Cardinality(RequestsFor(k))
              = IF IsOptimizeCall(framed[k]) /\ ~BadPrompt(framed[k]) THEN 1 ELSE 0

\* the class of a failed POST, by what came back
ErrorClass(outcome) ==
    CASE outcome.status = 429 -> "RateLimited"
      [] outcome.status = 401 -> "Unauthorized"
      [] outcome.status = 400 -> "BadRequest"
      [] outcome.status = 500 -> "ServerError"
      [] outcome.status = 0 -> "Unreachable"
      [] OTHER -> "Other"

NamedClasses ==
    {"RateLimited", "Unauthorized", "BadRequest", "ServerError", "Unreachable"}

\* the error message in the one answer written for line k
ErrorOf(k) == Tail(stdout[CHOOSE i \in ResponsesTo(k) : TRUE].out.text)

(* C11: the failures of optimize are told apart by HTTP status: a 429 that *)
(* carries a detail gives an error holding that detail, and two failures   *)
(* of different classes among 429, 401, 400, 500 and no response never     *)
(* give the same error.                                                    *)
C11_FailuresMapToDistinctErrors ==
    \A s \in settled :
        s.outcome.status # 200 =>
            /\ ResponsesTo(s.line) # {}
            /\ ErrorOf(s.line) # <<>>
            /\ (ErrorClass(s.outcome) = "RateLimited" /\ s.outcome.detail.t = "string") =>
                  \A d \in Range(s.outcome.detail.v) : d \in Range(ErrorOf(s.line))
            /\ \A t \in settled :
                  ( /\ ErrorClass(s.outcome) \in NamedClasses
                    /\ ErrorClass(t.outcome) \in NamedClasses
                    /\ ErrorClass(s.outcome) # ErrorClass(t.outcome) ) =>
                        ErrorOf(s.line) # ErrorOf(t.line)

\* one call has come back with 429 and a detail, another with no response
C11_Witness ==
    \E s, t \in settled :
        /\ s.outcome.status = 429 /\ s.outcome.detail.t = "string"
        /\ t.outcome.status = 0
        /\ ResponsesTo(s.line) # {} /\ ResponsesTo(t.line) # {}

(* C12: a complete line that is not blank has never more than one line    *)
(* written for it and, once the loop is through with it, exactly one,      *)
(* whether it was answered, failed in the handler or did not parse; a      *)
(* complete line that is empty or whitespace only has none.                *)
C12_OneWritePerNonBlankLine ==
    \A k \in DOMAIN framed :
        IF Blank(framed[k])
        THEN ResponsesTo(k) = {}
        ELSE /\ Cardinality(ResponsesTo(k)) <= 1
             /\ ~Pending(k) => Cardinality(ResponsesTo(k)) = 1

\* the loop is through with a line that failed in the handler: its one
\* error line, and nothing else, has been written
C12_Witness ==
    \E k \in DOMAIN framed :
        /\ ~Pending(k)
        /\ Len(stdout) = 1
        /\ \E i \in ResponsesTo(k) : stdout[i].out.code = -32000

\* the file holds no API key a process can start with
NoKeyStored ==
    \/ config.kind # "json"
    \/ "apiKey" \notin config.data.members
    \/ config.data.text["apiKey"] = <<>>

\* the POST of validateKey was sent and did not come back with a 2xx status
ValidationFailed == validation.status \notin {-1, 200}

(* C13: a process that has started without a stored API key, or whose key  *)
(* the remote service rejected or could not be asked about, has ended with *)
(* a non-zero exit code, has read no input and has written nothing to      *)
(* standard output.                                                        *)
C13_StartupFailureExitsSilently ==
    (phase # "starting" /\ (NoKeyStored \/ ValidationFailed)) =>
        /\ phase = "exited"
        /\ exitCode > 0
        /\ stream = <<>> /\ framed = <<>> /\ handlers = {}
        /\ stdout = <<>>
        /\ requests = <<>>

\* a process with a stored key has ended because the service was not reached
C13_Witness ==
    /\ ~NoKeyStored
    /\ validation.status = 0
    /\ phase = "exited"
    /\ exitCode = 1

\* line k is a request the handler or the remote service turns down: not
\* an envelope, an unknown method, an unknown tool, a prompt or goals that
\* do not pass, or a remote call that failed
TurnedDown(k) ==
    /\ WellFormed(framed[k])
    /\ \E i \in ResponsesTo(k) : stdout[i].out.kind = "error" \/ stdout[i].out.isError

(* C14: a serving process ends only by the step of the end of input or of  *)
(* a signal, which sets exit code 0 and does nothing else; the step that   *)
(* handles a line, whatever the line holds, and the step in which a remote *)
(* call comes back, failed or not, leave the process serving.              *)
C14_ServingEndsOnlyByEndOrSignal ==
    [][ /\ (phase = "serving" /\ phase' # "serving") =>
              /\ phase' = "exited"
              /\ exitCode' = 0
              /\ UNCHANGED <<stream, framed, handlers, stdout, requests, settled>>
        /\ (phase = "serving" /\ <<framed, handlers, stdout, requests, settled>>'
                                    # <<framed, handlers, stdout, requests, settled>>) =>
              /\ phase' = "serving"
              /\ exitCode' = exitCode ]_vars

\* a process has answered a request it turned down and has then ended with
\* exit code 0
C14_Witness ==
    /\ phase = "exited"
    /\ exitCode = 0
    /\ \E k \in DOMAIN framed : TurnedDown(k)

(* C15: the step that handles the end of input or a signal writes         *)
(* nothing, and no step after it adds to standard output, whatever lines   *)
(* were waiting and whatever remote calls were outstanding.                *)
C15_NoWriteAfterShutdown ==
    [][phase' = "exited" => stdout' = stdout]_vars

\* the process has ended with exit code 0 while a remote call was
\* outstanding and a later line of the same chunk was waiting
C15_Witness ==
    /\ phase = "exited"
    /\ exitCode = 0
    /\ \E h \in handlers :
          /\ h.st = "await"
          /\ Len(h.lines) >= 2
          /\ RequestsFor(h.at) # {}
          /\ ResponsesTo(h.at) = {}

\* the API key the last write stored, when it was a successful setApiKey or
\* a successful save
KeyWritten ==
    IF wrote.op = "setApiKey" THEN wrote.arg ELSE wrote.object.config.apiKey

SeenAbsent ==
    /\ got.op = "exists" => ~got.returns
    /\ got.op = "load" => ~got.returns

(* C17: after clear(), whatever the store held before, there is no record  *)
(* and exists() returns false.                                             *)
C17_ClearedMeansAbsent ==
    wrote.op = "clear" => (config.kind = "absent" /\ SeenAbsent)

(* C17, amended: after a clear() that returned true, or that found no      *)
(* record, there is no record and exists() returns false; a clear() that   *)
(* found no record returned false and left the store as it was, so a       *)
(* second clear() changes nothing.                                         *)
C17_ClearedUnlessUnlinkFailed ==
    wrote.op = "clear" =>
        /\ (wrote.returns \/ ~wrote.existed) => (config.kind = "absent" /\ SeenAbsent)
        /\ ~wrote.existed => ~wrote.returns
        /\ wrote.returns => wrote.existed

\* clear() has removed a record and exists() has returned false
C17_Witness ==
    /\ wrote.op = "clear"
    /\ wrote.existed
    /\ wrote.returns
    /\ got.op = "exists"
    /\ ~got.returns

\* line k is a tools/list request
IsToolsList(line) ==
    /\ WellFormed(line)
    /\ ValueOf(line).json = "object"
    /\ ValueOf(line).method = Str(<<"tools/list">>)

AddressIn(file) ==
    IF /\ file.kind = "json"
       /\ "backendUrl" \in file.data.members
       /\ file.data.text["backendUrl"] # <<>>
    THEN Str(file.data.text["backendUrl"])
    ELSE Str(<<"https://p01--project-optimizer--fvrdk8m9k9j.code.run">>)

C20_EnvironmentOverridesStore ==
    /\ env.PROMPT_OPTIMIZER_API_KEY.t = "string" =>
          /\ phase # "starting" => validation.status # -1
          /\ \A j \in DOMAIN requests :
                <<requests[j].key>> = env.PROMPT_OPTIMIZER_API_KEY.v
    /\ env.PROMPT_OPTIMIZER_BACKEND_URL.t = "string" =>
          \A j \in DOMAIN requests : requests[j].url = env.PROMPT_OPTIMIZER_BACKEND_URL

\* line k is not blank and cannot be decoded as a request envelope: it is
\* not JSON, or it is a JSON value that is not an object, or an object
\* without a method
NotAnEnvelope(line) ==
    /\ ~Blank(line)
    /\ \/ ~WellFormed(line)
       \/ ValueOf(line).json # "object"
       \/ ValueOf(line).method.t = "undefined"

(* C21: every complete non-blank line that cannot be decoded as a request  *)
(* envelope (not JSON, a JSON number, string, array or null, an object     *)
(* without a method) is answered, once handled, by exactly one parse error *)
(* -32700 with id null.                                                    *)
C21_NonEnvelopeIsParseError ==
    \A k \in DOMAIN framed :
        NotAnEnvelope(framed[k]) =>
            /\ ~Pending(k) => Cardinality(ResponsesTo(k)) = 1
            /\ \A i \in ResponsesTo(k) :
                  /\ IsRpcError(stdout[i].out, -32700)
                  /\ stdout[i].out.id = Null
                  /\ "id" \in stdout[i].out.members

\* line k is a decoded request envelope: a JSON object with a method
IsEnvelope(line) ==
    /\ WellFormed(line)
    /\ ValueOf(line).json = "object"
    /\ ValueOf(line).method.t # "undefined"

(* C22: every response line written for a decoded envelope has an id       *)
(* member, which is the id of the request unchanged, and null when the     *)
(* request has no id member.                                               *)
C22_IdEchoedNullForNotification ==
    \A k \in DOMAIN framed :
        IsEnvelope(framed[k]) =>
            \A i \in ResponsesTo(k) :
                /\ "id" \in stdout[i].out.members
                /\ stdout[i].out.id = IF ValueOf(framed[k]).id.t = "undefined"
                                      THEN Null
                                      ELSE ValueOf(framed[k]).id

(* C23: a tools/call that names optimize_prompt is always answered by a    *)
(* successful RPC response that carries a tool result (result member, no   *)
(* error member), whatever the type or value of params.arguments, of       *)
(* arguments.prompt and of arguments.goals.                                *)
C23_ValidationIsNeverProtocolError ==
    \A k \in DOMAIN framed :
        IsOptimizeCall(framed[k]) =>
            \A i \in ResponsesTo(k) :
                /\ IsToolResult(stdout[i].out)
                /\ stdout[i].out.code # -32000

(* C24: the goal list of every optimize request is de-duplicated: no tag   *)
(* occurs in it more than once, even when the caller's list repeats a      *)
(* known tag.                                                              *)
C24_RequestGoalsAreDistinct ==
    \A j \in DOMAIN requests :
        Cardinality(Range(requests[j].goals)) = Len(requests[j].goals)

\* text is what is left of full when the whitespace at its two ends is
\* taken away
IsTrimOf(text, full) ==
    /\ text # <<>>
    /\ text[1] \notin {" ", "\t", "\r"}
    /\ text[Len(text)] \notin {" ", "\t", "\r"}
    /\ \E i, j \in DOMAIN full :
          /\ SubSeq(full, i, j) = text
          /\ \A n \in DOMAIN full : (n < i \/ n > j) => full[n] \in {" ", "\t", "\r"}

(* C25: every optimize request sent carries a prompt that is a non-empty   *)
(* string without whitespace at either end, the caller's prompt trimmed,   *)
(* and a non-empty goal list whose elements all belong to the enumerated   *)
(* goal set.                                                               *)
C25_RequestIsTrimmedAndFiltered ==
    \A j \in DOMAIN requests :
        LET line == framed[requests[j].line]
        IN  /\ PromptOf(line).t = "string"
            /\ IsTrimOf(requests[j].prompt, PromptOf(line).v)
            /\ requests[j].goals # <<>>
            /\ Range(requests[j].goals) \subseteq Range(goalsEnum)

\* a prompt with whitespace at both ends and inside has gone out trimmed,
\* with the one known tag of a list that also held an unknown one
C25_Witness ==
    \E j \in DOMAIN requests :
        /\ PromptOf(framed[requests[j].line]) = Str(<<"\t", "p", " ", "q", " ">>)
        /\ requests[j].prompt = <<"p", " ", "q">>
        /\ CallerGoals(framed[requests[j].line]) = Arr(<<"not_a_real_goal", "structure">>)
        /\ requests[j].goals = <<"structure">>

\* line k is a request whose method is none of the three the server knows
HasUnknownMethod(line) ==
    /\ IsEnvelope(line)
    /\ ValueOf(line).method \notin
         {Str(<<"initialize">>), Str(<<"tools/list">>), Str(<<"tools/call">>)}

\* line k is a tools/call without params or without params.name
LacksToolName(line) ==
    /\ IsEnvelope(line)
    /\ ValueOf(line).method = Str(<<"tools/call">>)
    /\ \/ ValueOf(line).params.t # "object"
       \/ ValueOf(line).name.t \in {"undefined", "null"}
       \/ ValueOf(line).name = Str(<<>>)

(* C26: a request with an unknown method, and a tools/call without params  *)
(* or without params.name, are each answered, once handled, by exactly one *)
(* protocol-level error with code -32000 and the id of the request, with   *)
(* no result member, and the remote service is not called.                 *)
C26_UnknownMethodAndMissingName ==
    \A k \in DOMAIN framed :
        (HasUnknownMethod(framed[k]) \/ LacksToolName(framed[k])) =>
            /\ ~Pending(k) => Cardinality(ResponsesTo(k)) = 1
            /\ RequestsFor(k) = {}
            /\ \A i \in ResponsesTo(k) :
                  /\ IsRpcError(stdout[i].out, -32000)
                  /\ EchoesId(stdout[i].out, framed[k])

\* resources/list with the id "a" has been answered by an error that
\* carries that id
C26_Witness ==
    \E k \in DOMAIN framed :
        /\ HasUnknownMethod(framed[k])
        /\ ValueOf(framed[k]).method = Str(<<"resources/list">>)
        /\ ValueOf(framed[k]).id = Str(<<"a">>)
        /\ \E i \in ResponsesTo(k) :
              stdout[i].out.kind = "error" /\ stdout[i].out.id = Str(<<"a">>)

\* the remote call of line k came back, and not with a 2xx status
RemoteFailed(k) == \E s \in settled : s.line = k /\ s.outcome.status # 200

(* C27: the tool result of an optimize_prompt call is marked isError       *)
(* exactly when the prompt was rejected or the remote call failed; a call  *)
(* the remote service answered with success has the rendered text and no   *)
(* isError, whatever the body holds.                                       *)
C27_IsErrorIffValidationOrRemoteFailure ==
    \A k \in DOMAIN framed :
        IsOptimizeCall(framed[k]) =>
            \A i \in ResponsesTo(k) :
                IsToolResult(stdout[i].out) =>
                    /\ stdout[i].out.isError <=> (BadPrompt(framed[k]) \/ RemoteFailed(k))
                    /\ ~stdout[i].out.isError =>
                          "# Optimized Prompt" \in Range(stdout[i].out.text)

(* C28: every request of a server process goes to the backend address the  *)
(* config file holds, and to the built-in address only when the file       *)
(* holds none.                                                             *)
C28_RequestsGoToStoredAddress ==
    \A j \in DOMAIN requests : requests[j].url = AddressIn(config)

\* the step is a call of save, setApiKey or setBackendUrl that returned true
\* on a file that held a record
SavedOverRecord ==
    /\ wrote'.op \in {"save", "setApiKey", "setBackendUrl"}
    /\ got'.op = "none"
    /\ wrote'.returns
    /\ config.kind = "json"

\* the members the call of the step names
NamedByCall ==
    IF wrote'.op = "save"
    THEN {m \in {"apiKey", "backendUrl", "updatedAt"} :
            wrote'.object.config[m].t # "undefined"}
    ELSE IF wrote'.op = "setApiKey" THEN {"apiKey"}
    ELSE {"backendUrl"}

(* C29: save, setApiKey and setBackendUrl merge: a call that returned true *)
(* on a file that held a record leaves every member the call does not name *)
(* as it was, and leaves a record with an update timestamp.                *)
C29_SaveMerges ==
    [][SavedOverRecord =>
          /\ config'.kind = "json"
          /\ "updatedAt" \in config'.data.members
          /\ \A m \in (config.data.members \ NamedByCall) \ {"updatedAt"} :
                /\ m \in config'.data.members
                /\ config'.data.text[m] = config.data.text[m]]_vars

\* the step is a call of the method op that writes
WriteStep(op) == wrote'.op = op /\ got'.op = "none"

\* what is asked of the calls that do return: load() gives null for a file
\* that is absent or does not parse, save and clear that did not do their
\* work return false, and setApiKey(k) that wrote over a file that did not
\* parse leaves a record that load() reads with apiKey k
ReturnsAsDocumented ==
    /\ (got'.op = "load" /\ config.kind \in {"absent", "unparsable"}) =>
          (~got'.returns /\ ~got'.object.found)
    /\ (WriteStep("save") /\ config' # FileOf(wrote'.object.config)) =>
          (~wrote'.returns /\ config' = config)
    /\ (WriteStep("clear") /\ exists(config) /\ exists(config')) =>
          (~wrote'.returns /\ config' = config)
    /\ ( /\ WriteStep("setApiKey")
         /\ config.kind = "unparsable"
         /\ wrote'.arg.t = "string"
         /\ wrote'.returns ) =>
          /\ load(config').found
          /\ load(config').config.apiKey = wrote'.arg

(* C30: no call of a method of Config throws to its caller; load() returns *)
(* null when the file is absent or does not parse, save() and clear()      *)
(* return false when the write or the unlink fails, and setApiKey(k) on a  *)
(* file that does not parse leaves a record that reads back with apiKey k. *)
C30_NoConfigCallThrows ==
    [][~wrote'.threw /\ ~got'.threw /\ ReturnsAsDocumented]_vars

\* the requests the step sends
SentByStep == {j \in DOMAIN requests' : j \notin DOMAIN requests}

(* C31: the API key a server process sends is the one config.getApiKey()   *)
(* returned when the process started: the process that begins to serve     *)
(* holds the key of the file as it is then, holds it for as long as it     *)
(* serves, and sends it with every request, whatever setup or clear() of   *)
(* another process does to the file meanwhile.                             *)
C31_KeyFixedAtStart ==
    [][ /\ (phase = "starting" /\ phase' = "serving") =>
              apiKey' = headerOf(getApiKey(config))
        /\ phase = "serving" =>
              /\ apiKey' = apiKey
              /\ \A j \in SentByStep : requests'[j].key = apiKey ]_vars

\* a serving process has sent a request with the key it started with after
\* setup of another process has stored a different key
C31_Witness ==
    /\ phase = "serving"
    /\ wrote.op = "setup"
    /\ wrote.returns
    /\ getApiKey(config) = M("sk-opt-2")
    /\ requests # <<>>
    /\ requests[1].key = "sk-opt-1"

\* the step is one of the server process
ServerStep == server' # server

\* the step is a run of setup of another process
SetupStep == wrote'.op = "setup" /\ server' = server

(* C32: no step of a server process (startup, a line read, a line handled, *)
(* a remote call settling, the end of input, a signal) writes or removes   *)
(* the config file, and a run of setup given a key that does not start     *)
(* with sk-opt- ends with a non-zero exit code and leaves the file as it   *)
(* was.                                                                    *)
C32_OnlySetupWritesConfig ==
    [][ /\ ServerStep => config' = config
        /\ (SetupStep /\ ~startsWith(headerOf(wrote'.arg), "sk-opt-")) =>
              (~wrote'.returns /\ config' = config) ]_vars

\* setup was given sk-2 and has exited with a failure, and the serving
\* process, which has answered a request, still finds the record there
C32_Witness ==
    /\ phase = "serving"
    /\ stdout # <<>>
    /\ wrote.op = "setup"
    /\ wrote.arg = M("sk-2")
    /\ ~wrote.returns
    /\ config = FileOf(ConfigObject(M("sk-opt-1"), Undefined, Undefined))

\* a handler is suspended in the await of a remote call
Suspended == \E h \in handlers : h.st = "await"

\* what the stream holds after its last newline
AfterLastNewline == SubSeq(stream, Newline(Cardinality(Newlines)) + 1, Len(stream))

(* C33: while a handler is suspended on a remote call, a 'data' event can  *)
(* be dispatched as soon as no handler is running; what has been read is   *)
(* framed in full, every newline-terminated segment in the lines arrays    *)
(* and the rest in the buffer; and every line framed after the lines of    *)
(* the suspended handler is answered, blank, or with a handler of its own. *)
C33_ReadNotBlockedByRemoteCall ==
    (phase = "serving" /\ Suspended) =>
        /\ Running = {} => ENABLED (Idle /\ OnData(<<NL>>))
        /\ Len(framed) = Cardinality(Newlines)
        /\ buffer = AfterLastNewline
        /\ \A k \in DOMAIN framed :
              Blank(framed[k]) \/ ResponsesTo(k) # {} \/ Pending(k)

\* a chunk was read while a remote call was outstanding, and a line of it
\* has been answered while the call is outstanding still
C33_Witness ==
    \E h \in handlers :
        /\ h.st = "await"
        /\ h.at \notin {s.line : s \in settled}
        /\ \E i \in DOMAIN stdout : stdout[i].line >= h.at + Len(h.lines)

\* the line is an initialize request
IsInitialize(line) ==
    /\ WellFormed(line)
    /\ ValueOf(line).json = "object"
    /\ ValueOf(line).method = Str(<<"initialize">>)

\* the positions in stdout of the lines the step writes
WrittenByStep == {i \in DOMAIN stdout' : i \notin DOMAIN stdout}

(* C34: whatever was handled before and whatever is outstanding, the       *)
(* answer to an initialize request is a result with protocol version       *)
(* 2024-11-05, the tools capability and the server info                    *)
(* mcp-prompt-optimizer 1.0.0, and the step that writes it sends no        *)
(* request, settles none, writes no config, and leaves the buffer, the     *)
(* framed lines and the suspended handlers as they were.                   *)
C34_InitializeIsStaticAndPure ==
    [][\A i \in WrittenByStep :
          IsInitialize(framed[stdout'[i].line]) =>
              /\ stdout'[i].out.kind = "result"
              /\ stdout'[i].out.info.protocolVersion = "2024-11-05"
              /\ stdout'[i].out.info.capabilities = {"tools"}
              /\ stdout'[i].out.info.name = "mcp-prompt-optimizer"
              /\ stdout'[i].out.info.version = "1.0.0"
              /\ requests' = requests
              /\ settled' = settled
              /\ <<stream, buffer, framed>>' = <<stream, buffer, framed>>
              /\ <<phase, exitCode, apiKey>>' = <<phase, exitCode, apiKey>>
              /\ store' = store
              /\ {h \in handlers' : h.st = "await"} = {h \in handlers : h.st = "await"}
      ]_vars

\* initialize has been answered after an earlier line was, while the remote
\* call of another line is outstanding
C34_Witness ==
    \E i \in DOMAIN stdout :
        /\ i > 1
        /\ IsInitialize(framed[stdout[i].line])
        /\ Suspended

\* the texts console.error writes in server mode
Diagnostics ==
    {"No API key found", "Connected", "Tier", "Quota", "Status", "Failed to connect",
     "If your API key is invalid", "Server running", "Protocol error:",
     "MCP connection closed", "MCP server shutting down..."}

\* what a process that serves has written to standard error at startup
Banner == <<"Connected", "Tier", "Quota", "Status", "Server running">>

\* the number of elements of the sequence that satisfy Test
Count(seq, Test(_)) == Cardinality({i \in DOMAIN seq : Test(seq[i])})

IsParseErrorFrame(w) == w.out.kind = "error" /\ w.out.code = -32700

IsProtocolErrorNote(text) == text = "Protocol error:"

(* C35: every write to standard output is one response object (jsonrpc,    *)
(* an id if it has one, and either result or error) followed by a newline; *)
(* standard error holds diagnostics only: the startup banner of a process  *)
(* that serves, one protocol-error note for each parse-error response, and *)
(* the note of the shutdown; a process that did not get to serve has       *)
(* written to standard error only.                                         *)
C35_FramesOnStdoutDiagnosticsOnStderr ==
    /\ \A i \in DOMAIN stdout :
          /\ stdout[i].end = "\n"
          /\ "jsonrpc" \in stdout[i].out.members
          /\ stdout[i].out.kind \in {"result", "error"}
          /\ stdout[i].out.members \subseteq {"jsonrpc", "id", stdout[i].out.kind}
    /\ \A i \in DOMAIN stderr : stderr[i] \in Diagnostics
    /\ Count(stderr, IsProtocolErrorNote) = Count(stdout, IsParseErrorFrame)
    /\ (phase = "serving" \/ exitCode = 0) => SubSeq(stderr, 1, Len(Banner)) = Banner
    /\ (phase = "exited" /\ exitCode # 0) => (stdout = <<>> /\ stderr # <<>>)
    /\ phase = "starting" => (stdout = <<>> /\ stderr = <<>>)

\* a process has answered a request and a line that does not parse, and
\* has ended with the input
C35_Witness ==
    /\ phase = "exited"
    /\ stderr = Banner \o <<"Protocol error:", "MCP connection closed">>
    /\ Len(stdout) = 2
    /\ \E i \in DOMAIN stdout : stdout[i].out.kind = "result"

\* line k has not been begun: nothing written and nothing sent for it
NotBegun(k) == ResponsesTo(k) = {} /\ RequestsFor(k) = {}

(* C36: the lines of one lines array are handled one after another: while  *)
(* a handler is at a line, running or suspended on its remote call, no     *)
(* later line of its array has been begun, every earlier line of its array *)
(* is blank or has its response on standard output, and those responses    *)
(* stand in line order.                                                    *)
C36_LinesOfAChunkInOrder ==
    \A h \in handlers :
        /\ \A k \in (h.at + 1)..(h.at + Len(h.lines) - 1) : NotBegun(k)
        /\ h.st = "run" => NotBegun(h.at)
        /\ \A k \in h.first..(h.at - 1) : Blank(framed[k]) \/ ResponsesTo(k) # {}
        /\ \A k1, k2 \in h.first..(h.at - 1) :
              k1 < k2 => \A i \in ResponsesTo(k1), j \in ResponsesTo(k2) : i < j

\* two calls came in one chunk: the first was answered once its remote call
\* had settled, and the handler is now suspended on the call of the second
C36_Witness ==
    \E h \in handlers :
        /\ h.st = "await"
        /\ h.at = h.first + 1
        /\ ResponsesTo(h.first) # {}
        /\ h.first \in {s.line : s \in settled}
        /\ RequestsFor(h.at) # {}

\* the handlers suspended on a remote call
InFlight == {h \in handlers : h.st = "await"}

(* C37: remote calls of different 'data' events are not serialized: a      *)
(* handler whose line is a call of optimize_prompt can handle it while     *)
(* calls of other handlers are outstanding, any outstanding call can       *)
(* settle once no handler runs, every request sent and not settled is      *)
(* outstanding at the same time, one for each suspended handler, and       *)
(* handlers suspended together belong to different lines arrays.           *)
C37_CallsAcrossChunksNotSerialized ==
    phase = "serving" =>
        /\ ( /\ InFlight # {}
             /\ \E h \in handlers : h.st = "run" /\ IsOptimizeCall(Head(h.lines)) ) =>
              ENABLED HandleLine
        /\ (InFlight # {} /\ InFlight = handlers) => ENABLED RemoteSettles(StreamOutcomes)
        /\ Cardinality(InFlight) = Len(requests) - Cardinality({s.line : s \in settled})
        /\ \A h, g \in InFlight : h # g => h.first # g.first

\* two calls came in two chunks and both were sent; the second has been
\* answered while the first is outstanding
C37_Witness ==
    /\ Len(requests) = 2
    /\ requests[1].line < requests[2].line
    /\ \E h \in InFlight : h.at = requests[1].line
    /\ \E i \in DOMAIN stdout :
          /\ stdout[i].line = requests[2].line
          /\ stdout[i].out.kind = "result"
    /\ ResponsesTo(requests[1].line) = {}

\* line k of framed is a newline-terminated segment of the stream
Terminated(k) == k \in 1..Cardinality(Newlines) /\ framed[k] = Segment(k)

(* C38: once the process has ended with the input (or a signal), what the  *)
(* stream held after its last newline is in the buffer still: it was never *)
(* put in a lines array, every response written and every request sent is  *)
(* for a newline-terminated line, and no step follows.                     *)
C38_UnterminatedTailIsDiscarded ==
    (phase = "exited" /\ exitCode = 0) =>
        /\ buffer = AfterLastNewline
        /\ Len(framed) = Cardinality(Newlines)
        /\ \A i \in DOMAIN stdout : Terminated(stdout[i].line)
        /\ \A j \in DOMAIN requests : Terminated(requests[j].line)
        /\ ~ENABLED Next

\* the input has ended after a complete request with no newline after it,
\* and nothing was written for it
C38_Witness ==
    /\ phase = "exited"
    /\ stderr[Len(stderr)] = "MCP connection closed"
    /\ WellFormed(buffer)
    /\ IsOptimizeCall(buffer)
    /\ stdout = <<>>
    /\ requests = <<>>

\* the tags the tool descriptor lists for the items of goals
Advertised == Range(tools[1].enum)

(* C39: the tags tools/list advertises and the tags a call keeps are the   *)
(* same set: every answer to tools/list lists the advertised tags, clarity *)
(* among them, with default [clarity]; a tag of the caller's goals is in   *)
(* the request sent if and only if it is advertised; and every tag of a    *)
(* request, the default clarity included, is advertised.                   *)
C39_AdvertisedGoalsAreValidatedGoals ==
    /\ \A i \in DOMAIN stdout :
          stdout[i].out.body = "tools" =>
              /\ Range(stdout[i].out.tools[1].enum) = Advertised
              /\ "clarity" \in Advertised
              /\ stdout[i].out.tools[1].default = <<"clarity">>
    /\ \A j \in DOMAIN requests :
          LET caller == CallerGoals(framed[requests[j].line])
          IN  /\ Range(requests[j].goals) \subseteq Advertised
              /\ caller.t = "array" =>
                    \A g \in Range(caller.v) :
                        g \in Range(requests[j].goals) <=> g \in Advertised
              /\ caller.t = "undefined" => requests[j].goals = <<"clarity">>

\* a call whose only goal is the last tag of the descriptor has been sent
\* with that tag
C39_Witness ==
    /\ requests # <<>>
    /\ CallerGoals(framed[requests[1].line]) = Arr(<<"holistic_effectiveness">>)
    /\ requests[1].goals = <<"holistic_effectiveness">>

=============================================================================
